---- MODULE Spec2Model ----
(***************************************************************************)
(* Model of prism's DagExecutor (src/prism/infra/executor.py), of the     *)
(* module execution it drives (src/prism/infra/module.py), of CompileTask  *)
(* (src/prism/cli/compile.py) and of the graph compiler's ordering.        *)
(*                                                                         *)
(* Threads of the program:                                                 *)
(*   - the main thread, running DagExecutor.exec (sequential loop or the   *)
(*     pooled submission loop);                                            *)
(*   - the pool's worker threads, each running exec_single for one task;   *)
(*   - the pool's single result-handler thread, which runs the completion  *)
(*     callback of a task and then sets the event AsyncResult.wait() waits *)
(*     on.                                                                 *)
(***************************************************************************)
EXTENDS Integers, Sequences, FiniteSets, TLC

\* Largest retry count a task of the model declares.
MaxRetries == 1

\* The compiled tasks, and the topological order the compiler hands over.
Tasks == {"A", "B", "C"}
topological_sort == <<"A", "B", "C">>

\* Values of the `threads` argument: 1 is sequential mode, the others pooled.
ThreadChoices == {1, 2, 4}

\* The PrismTaskManager object, and the values that stand for "failed"/None.
TM == "task_manager"
ZERO == "0"
None == "None"

VARIABLES
    threads,          \* DagExecutor.threads
    refs,             \* model.refs of every task (string or list)
    retries,          \* retries of every task (grab_retries_metadata)
    firstOk,          \* input: the first attempt of the task that succeeds
    compiled_models,  \* self.compiled_models, the work queue
    pc,               \* position of the main thread in exec
    curr,             \* the local `curr` of exec
    status,           \* per task: where its exec_single call stands
    raised,           \* per task: its exec_single call raised in the worker
    tmArg,            \* per task: the task_manager argument it was called with
    num_runs,         \* per task: exec_single's num_runs
    outputs,          \* per task: exec_single's outputs
    delays,           \* per task: number of time.sleep(retry_delay_seconds)
    upstream,         \* keys of task_manager.upstream (the registry)
    writes,           \* per task: number of writes of its key into upstream
    task_manager,     \* self.task_manager
    wait_and_return,  \* self._wait_and_return
    error_event,      \* self.error_event (the task whose failure it is)
    event_list,       \* self.event_list (one entry per delivered result)
    async_results,    \* keys of the local dict async_results
    pool,             \* state of the Pool
    ret,              \* the ExecutorOutput exec returned
    submissions,      \* the calls of pool.apply_async, in order
    user_arg_models,          \* compiled_dag.user_arg_models
    user_arg_all_upstream,    \* DagExecutor.user_arg_all_upstream
    user_arg_all_downstream,  \* DagExecutor.user_arg_all_downstream
    progress,         \* what exec_single computed for the task it was given
    ct,               \* CompileTask: inputs, position and returned result
    compiler,         \* the graph compiler: descriptors, position and order
    norm,             \* a module's declared sources, its refs, the refs list
    es                \* locals of one exec_single call: attempt number, name

\* The state of DagExecutor.exec.
execVars == <<threads, refs, retries, firstOk, compiled_models, pc, curr,
              status, raised, tmArg, num_runs, outputs, delays, upstream,
              writes, task_manager, wait_and_return, error_event, event_list,
              async_results, pool, ret, submissions>>

\* The user's selection and what exec_single derives from it.
argVars == <<user_arg_models, user_arg_all_upstream, user_arg_all_downstream,
             progress>>

\* The state outside the executor.
otherVars == <<argVars, ct, compiler, norm, es>>

vars == <<execVars, otherVars>>

----------------------------------------------------------------------------
(* Helpers *)

IndexOf(t) == CHOOSE i \in 1..Len(topological_sort) : topological_sort[i] = t

Earlier(t) == {topological_sort[i] : i \in 1..(IndexOf(t) - 1)}

SeqOfSet(S) == SelectSeq(topological_sort, LAMBDA x : x \in S)

Range(s) == {s[i] : i \in 1..Len(s)}

\* CompiledModule._check_manifest: a bare string when there is exactly one
\* source, the list otherwise.
check_manifest(sources) ==
    IF Len(sources) = 1
    THEN [type |-> "str", str |-> sources[1], list |-> <<>>]
    ELSE [type |-> "list", str |-> None, list |-> sources]

\* Faulty variant: a bare string is not wrapped into a list.
check_task_refs_NoWrap(r) == r.list

\* DagExecutor.check_task_refs: refs as a list of strings.
check_task_refs(r) ==
    IF r.type = "str" THEN <<r.str>> ELSE r.list

\* check_task_refs raises CompileException for refs that are neither a str
\* nor a list.
RefsInvalid(r) == r.type \notin {"str", "list"}

RefsOf(t) == Range(check_task_refs(refs[t]))

\* `self.compiled_models = self.compiled_dag.compiled_models`: the executor's
\* work queue is the list object the CompiledDag holds, not a copy of it.
compiled_dag_compiled_models == compiled_models

\* model.model_relative_path: a Path, `<name>.py`; model.task_var_name is
\* the name itself.  A Path is equal to no str.
model_relative_path(t) == t \o ".py"

\* list.index: the position of the first occurrence of x in s.
ListIndex(s, x) ==
    CHOOSE i \in 1..Len(s) : s[i] = x /\ \A j \in 1..(i - 1) : s[j] /= x

\* exec_single has computed nothing yet.
NoProgress ==
    [task |-> None, fire_exec_events |-> FALSE, has_idx |-> FALSE,
     idx |-> 0, total |-> 0, explicit_run |-> FALSE]

Running == {t \in Tasks : status[t] = "running"}

----------------------------------------------------------------------------
(* exec_single: the attempt loop *)

\* Faulty variant: the loop never makes a second attempt.
LoopCond_Once(n, expected, out) == FALSE

\* Faulty variant: the loop goes on after a successful attempt.
LoopCond_IgnoresOutputs(n, expected, out) == n /= expected

\* The loop condition `num_runs != num_expected_runs and outputs == 0`.
LoopCond(n, expected, out) == n /= expected /\ out = ZERO

\* Faulty variant: the first attempt is treated as a retry too.
IsRetry_FromFirst(n) == n > 0

\* `if num_runs > 1`: the attempt is a retry, preceded by DelayEvent and sleep.
IsRetry(n) == n > 1

\* BaseEventManager.manage_events_during_run around model.exec: the result of
\* attempt k of task t.  outputs is what the function returned, or 0 with the
\* error event when it raised.
manage_events_during_run(t, k) ==
    IF k >= firstOk[t]
    THEN [outputs |-> TM, event_to_fire |-> None]
    ELSE [outputs |-> ZERO, event_to_fire |-> t]

\* CompiledModule.exec: the task runs; only when it did not raise is its
\* instance stored under the module's name, `task_manager.upstream[self.name]`.
ModuleExecStores(out) == out /= ZERO

\* exec_single is entered with task_manager; `task_manager.curr_module = ...`
\* raises AttributeError when the argument is the int 0.
EntryRaises(tm) == tm = ZERO

\* One iteration of the while loop of exec_single (and, when the loop
\* condition then fails, the return of the result).
Attempt(t) ==
    /\ status[t] = "running"
    /\ LET k   == num_runs[t] + 1
           res == manage_events_during_run(t, k)
           out == res.outputs
       IN  /\ num_runs' = [num_runs EXCEPT ![t] = k]
           /\ delays' = [delays EXCEPT ![t] = IF IsRetry(k) THEN @ + 1 ELSE @]
           /\ outputs' = [outputs EXCEPT ![t] = out]
           /\ upstream' = IF ModuleExecStores(out) THEN upstream \cup {t}
                          ELSE upstream
           /\ writes' = [writes EXCEPT ![t] =
                            IF ModuleExecStores(out) THEN @ + 1 ELSE @]
           /\ status' = [status EXCEPT ![t] =
                            IF LoopCond(k, retries[t] + 1, out)
                            THEN "running" ELSE "finished"]
    /\ UNCHANGED <<otherVars, submissions, threads, refs, retries, firstOk,
                   compiled_models, pc, curr, raised, tmArg, task_manager,
                   wait_and_return, error_event, event_list, async_results,
                   pool, ret>>

----------------------------------------------------------------------------
(* exec, sequential mode (threads == 1) *)

\* Faulty variant: callback never takes a result for a failure.
CallbackFails_Never(out) == FALSE

\* `if task_manager == 0` of callback.
CallbackFails(out) == out = ZERO

\* Faulty variant: the sequential loop does not stop at a failure.
SeqStops_Never(tm) == FALSE

\* `if self.task_manager == 0: return ExecutorOutput(0, ...)`.
SeqStops(tm) == tm = ZERO

\* Faulty variant: the head is never removed from the queue.
PopHead_Keep(q) == q

\* Faulty variant: pop() takes the last element instead of the head.
PopHead_Last(q) == SubSeq(q, 1, Len(q) - 1)

\* `self.compiled_models.pop(0)`: the queue without its head.
PopHead(q) == Tail(q)

\* `curr = self.compiled_models.pop(0)` and the entry of exec_single.
SeqPop ==
    /\ pc = "seq_loop"
    /\ compiled_models /= <<>>
    /\ LET t == Head(compiled_models)
       IN  /\ curr' = t
           /\ compiled_models' = PopHead(compiled_models)
           /\ tmArg' = [tmArg EXCEPT ![t] = task_manager]
           /\ raised' = [raised EXCEPT ![t] = EntryRaises(task_manager)]
           /\ status' = [status EXCEPT ![t] =
                            IF EntryRaises(task_manager) THEN "finished"
                            ELSE "running"]
    /\ pc' = "seq_exec"
    /\ UNCHANGED <<otherVars, submissions, threads, refs, retries, firstOk,
                   num_runs, outputs, delays, upstream, writes, task_manager,
                   wait_and_return, error_event, event_list, async_results,
                   pool, ret>>

\* `callback(result)` called by the main thread, then the test of
\* self.task_manager.
SeqCallback ==
    /\ pc = "seq_exec"
    /\ status[curr] = "finished"
    /\ ~raised[curr]
    /\ LET out == outputs[curr]
       IN  /\ wait_and_return' = (wait_and_return \/ CallbackFails(out))
           /\ error_event' = IF CallbackFails(out) THEN curr ELSE error_event
           /\ task_manager' = out
           /\ event_list' = Append(event_list, curr)
           /\ status' = [status EXCEPT ![curr] = "complete"]
           /\ IF SeqStops(out)
              THEN /\ ret' = [returned |-> TRUE, success |-> 0,
                              error_event |-> error_event']
                   /\ pc' = "done"
              ELSE /\ ret' = ret
                   /\ pc' = "seq_loop"
    /\ UNCHANGED <<otherVars, submissions, threads, refs, retries, firstOk,
                   compiled_models, curr, raised, tmArg, num_runs, outputs,
                   delays, upstream, writes, async_results, pool>>

\* The while loop ends: `return ExecutorOutput(1, ...)`.
SeqReturn ==
    /\ pc = "seq_loop"
    /\ compiled_models = <<>>
    /\ ret' = [returned |-> TRUE, success |-> 1, error_event |-> error_event]
    /\ pc' = "done"
    /\ UNCHANGED <<otherVars, submissions, threads, refs, retries, firstOk,
                   compiled_models, curr, status, raised, tmArg, num_runs,
                   outputs, delays, upstream, writes, task_manager,
                   wait_and_return, error_event, event_list, async_results,
                   pool>>

----------------------------------------------------------------------------
(* exec, pooled mode (threads > 1) *)

\* `if self._wait_and_return: break`, tested before the refs are looked at.
SkipAtHead(flag) == flag

\* Faulty variant: the flag is not tested again after the wait.
SkipAfterWait_Never(flag) == FALSE

\* `if self._wait_and_return: break`, tested after the wait on the refs.
SkipAfterWait(flag) == flag

\* Faulty variants: only the first ref is waited on; no ref is waited on.
WaitedRefs_FirstOnly(rs) == <<rs[1]>>
WaitedRefs_None(rs) == <<>>

\* `for ref in refs: async_results[ref].wait()`: the refs waited on.
WaitedRefs(rs) == rs

\* Head of the while loop: `curr = self.compiled_models[0]`,
\* `refs = self.check_task_refs(curr)` (which may raise CompileException out
\* of exec and of the with block), the first test of the flag and the test
\* `len(refs) == 0`.
PoolLoop ==
    /\ pc = "loop"
    /\ IF compiled_models = <<>>
       THEN /\ pc' = "join"
            /\ curr' = curr
            /\ pool' = pool
       ELSE /\ curr' = Head(compiled_models)
            /\ IF RefsInvalid(refs[curr'])
               THEN /\ pc' = "compile_error"
                    /\ pool' = "terminated"
               ELSE /\ pc' = IF SkipAtHead(wait_and_return) THEN "join"
                             ELSE IF Len(check_task_refs(refs[curr'])) = 0
                                  THEN "submit"
                                  ELSE "wait"
                    /\ pool' = pool
    /\ UNCHANGED <<otherVars, submissions, threads, refs, retries, firstOk,
                   compiled_models, status, raised, tmArg, num_runs, outputs,
                   delays, upstream, writes, task_manager, wait_and_return,
                   error_event, event_list, async_results, ret>>

\* The wait on every ref in turn, then the second test of the flag.  A ref
\* that is no key of async_results raises KeyError out of exec.
PoolWait ==
    /\ pc = "wait"
    /\ LET rs      == WaitedRefs(check_task_refs(refs[curr]))
           missing == {i \in 1..Len(rs) : rs[i] \notin async_results}
           upto    == IF missing = {} THEN Len(rs)
                      ELSE (CHOOSE i \in missing :
                                \A j \in missing : i <= j) - 1
       IN  /\ \A i \in 1..upto : status[rs[i]] = "complete"
           /\ IF missing /= {}
              THEN /\ pc' = "keyerror"
                   /\ pool' = "terminated"
              ELSE /\ pc' = IF SkipAfterWait(wait_and_return) THEN "join"
                            ELSE "submit"
                   /\ pool' = pool
    /\ UNCHANGED <<otherVars, submissions, threads, refs, retries, firstOk,
                   compiled_models, curr, status, raised, tmArg, num_runs,
                   outputs, delays, upstream, writes, task_manager,
                   wait_and_return, error_event, event_list, async_results,
                   ret>>

\* Faulty variant: the result is recorded under the task's file name.
SubmitKey_Path(t) == model_relative_path(t)

\* `async_results[curr.task_var_name] = res`: the key a submission is
\* recorded under.
SubmitKey(t) == t

\* `pool.apply_async(self.exec_single, args=(..., self.task_manager, ...))`,
\* `async_results[curr.task_var_name] = res`, `self.compiled_models.pop(0)`.
PoolSubmit ==
    /\ pc = "submit"
    /\ status' = [status EXCEPT ![curr] = "submitted"]
    /\ tmArg' = [tmArg EXCEPT ![curr] = task_manager]
    /\ async_results' = async_results \cup {SubmitKey(curr)}
    /\ submissions' = Append(submissions, curr)
    /\ compiled_models' = PopHead(compiled_models)
    /\ pc' = "loop"
    /\ UNCHANGED <<otherVars, threads, refs, retries, firstOk, curr, raised,
                   num_runs, outputs, delays, upstream, writes, task_manager,
                   wait_and_return, error_event, event_list, pool, ret>>

\* Faulty variant: the pool starts a call whenever one is queued.
WorkerFree_Always(n) == TRUE

\* `Pool(processes=self.threads)`: one of the n workers is not inside a call.
WorkerFree(n) == Cardinality(Running) < n

\* A worker of the pool takes the oldest submitted task and enters
\* exec_single with the arguments of the submission.
WorkerStart(t) ==
    /\ threads > 1
    /\ status[t] = "submitted"
    /\ WorkerFree(threads)
    /\ \A u \in Tasks : status[u] = "submitted" => IndexOf(t) <= IndexOf(u)
    /\ raised' = [raised EXCEPT ![t] = EntryRaises(tmArg[t])]
    /\ status' = [status EXCEPT ![t] =
                     IF EntryRaises(tmArg[t]) THEN "finished" ELSE "running"]
    /\ UNCHANGED <<otherVars, submissions, threads, refs, retries, firstOk,
                   compiled_models, pc, curr, tmArg, num_runs, outputs,
                   delays, upstream, writes, task_manager, wait_and_return,
                   error_event, event_list, async_results, pool, ret>>

\* The result handler is busy inside the callback of some task.
HandlerBusy == \E u \in Tasks : status[u] = "callback"

\* callback, first half, for a failed result:
\* `self._wait_and_return = True; self.error_event = error_event`.
CallbackFlag(t) ==
    /\ threads > 1
    /\ status[t] = "finished"
    /\ ~raised[t]
    /\ ~HandlerBusy
    /\ CallbackFails(outputs[t])
    /\ wait_and_return' = TRUE
    /\ error_event' = manage_events_during_run(t, num_runs[t]).event_to_fire
    /\ status' = [status EXCEPT ![t] = "callback"]
    /\ UNCHANGED <<otherVars, submissions, threads, refs, retries, firstOk,
                   compiled_models, pc, curr, raised, tmArg, num_runs,
                   outputs, delays, upstream, writes, task_manager,
                   event_list, async_results, pool, ret>>

\* callback, second half (all of it for a successful result):
\* `self.task_manager = task_manager; self.event_list += runner_event_list`;
\* the handler then sets the event of the AsyncResult.
CallbackFinish(t) ==
    /\ threads > 1
    /\ \/ status[t] = "callback"
       \/ /\ status[t] = "finished"
          /\ ~raised[t]
          /\ ~HandlerBusy
          /\ ~CallbackFails(outputs[t])
    /\ task_manager' = outputs[t]
    /\ event_list' = Append(event_list, t)
    /\ status' = [status EXCEPT ![t] = "complete"]
    /\ UNCHANGED <<otherVars, submissions, threads, refs, retries, firstOk,
                   compiled_models, pc, curr, raised, tmArg, num_runs,
                   outputs, delays, upstream, writes, wait_and_return,
                   error_event, async_results, pool, ret>>

\* Faulty variant: the result of a call that raised is never marked ready.
HandleRaised_Lost(t) == FALSE /\ UNCHANGED vars

\* The result of a call that raised: no error_callback is registered, the
\* handler only sets the event.
HandleRaised(t) ==
    /\ threads > 1
    /\ status[t] = "finished"
    /\ raised[t]
    /\ ~HandlerBusy
    /\ status' = [status EXCEPT ![t] = "complete"]
    /\ UNCHANGED <<otherVars, submissions, threads, refs, retries, firstOk,
                   compiled_models, pc, curr, raised, tmArg, num_runs,
                   outputs, delays, upstream, writes, task_manager,
                   wait_and_return, error_event, event_list, async_results,
                   pool, ret>>

\* `pool.close(); pool.join()`: returns when every submitted call has ended
\* and its result has been handled.
PoolJoin ==
    /\ pc = "join"
    /\ \A t \in Range(submissions) : status[t] = "complete"
    /\ pool' = "joined"
    /\ pc' = "after"
    /\ UNCHANGED <<otherVars, submissions, threads, refs, retries, firstOk,
                   compiled_models, curr, status, raised, tmArg, num_runs,
                   outputs, delays, upstream, writes, task_manager,
                   wait_and_return, error_event, event_list, async_results,
                   ret>>

\* End of the with block, `if self._wait_and_return:` with
\* _cancel_connections (close, terminate, join), and the return.
PoolReturn ==
    /\ pc = "after"
    /\ pool' = "terminated"
    /\ ret' = [returned |-> TRUE,
               success |-> IF wait_and_return THEN 0 ELSE 1,
               error_event |-> error_event]
    /\ pc' = "done"
    /\ UNCHANGED <<otherVars, submissions, threads, refs, retries, firstOk,
                   compiled_models, curr, status, raised, tmArg, num_runs,
                   outputs, delays, upstream, writes, task_manager,
                   wait_and_return, error_event, event_list, async_results>>

----------------------------------------------------------------------------
(* The specification *)

\* The inputs: a dependency graph for which topological_sort is a topological
\* order, a retry count and the first successful attempt of every task.
ExecInputs ==
    /\ threads \in ThreadChoices
    /\ \E deps \in [Tasks -> SUBSET Tasks] :
          /\ \A t \in Tasks : deps[t] \subseteq Earlier(t)
          /\ refs = [t \in Tasks |-> check_manifest(SeqOfSet(deps[t]))]
    /\ retries \in [Tasks -> 0..MaxRetries]
    /\ firstOk \in [Tasks -> 1..(MaxRetries + 2)]
    /\ \A t \in Tasks : firstOk[t] <= retries[t] + 2

\* The state exec sets up before its loop.
ExecStart ==
    /\ compiled_models = topological_sort
    /\ pc = IF threads = 1 THEN "seq_loop" ELSE "loop"
    /\ curr = None
    /\ status = [t \in Tasks |-> "pending"]
    /\ raised = [t \in Tasks |-> FALSE]
    /\ tmArg = [t \in Tasks |-> None]
    /\ num_runs = [t \in Tasks |-> 0]
    /\ outputs = [t \in Tasks |-> ZERO]
    /\ delays = [t \in Tasks |-> 0]
    /\ upstream = {}
    /\ writes = [t \in Tasks |-> 0]
    /\ task_manager = TM
    /\ wait_and_return = FALSE
    /\ error_event = None
    /\ event_list = <<>>
    /\ async_results = {}
    /\ pool = IF threads = 1 THEN "none" ELSE "open"
    /\ ret = [returned |-> FALSE, success |-> 0, error_event |-> None]
    /\ submissions = <<>>

\* The parts of the state a specification does not exercise.
ArgsIdle ==
    /\ user_arg_models = topological_sort
    /\ user_arg_all_upstream = FALSE
    /\ user_arg_all_downstream = FALSE
    /\ progress = NoProgress
CompileIdle == ct = [pc |-> "idle"]
CompilerIdle == compiler = [pc |-> "idle"]
NormIdle == norm = [pc |-> "idle"]
EsIdle == es = [pc |-> "idle"]

Init ==
    /\ ExecInputs /\ ExecStart
    /\ ArgsIdle /\ CompileIdle /\ CompilerIdle /\ NormIdle /\ EsIdle

Next ==
    \/ SeqPop
    \/ SeqCallback
    \/ SeqReturn
    \/ PoolLoop
    \/ PoolWait
    \/ PoolSubmit
    \/ PoolJoin
    \/ PoolReturn
    \/ \E t \in Tasks : Attempt(t)
    \/ \E t \in Tasks : WorkerStart(t)
    \/ \E t \in Tasks : CallbackFlag(t)
    \/ \E t \in Tasks : CallbackFinish(t)
    \/ \E t \in Tasks : HandleRaised(t)

Spec == Init /\ [][Next]_vars

----------------------------------------------------------------------------
(* Vocabulary of the properties *)

Min(a, b) == IF a <= b THEN a ELSE b

\* Attempts exec_single is to make for t: up to retries + 1, stopping at the
\* first success.
ExpectedAttempts(t) == Min(firstOk[t], retries[t] + 1)

\* Some attempt of t succeeds within its retries.
TaskOk(t) == firstOk[t] <= retries[t] + 1

\* t's result has been delivered and its last attempt succeeded.
Succeeded(t) == status[t] = "complete" /\ outputs[t] = TM

\* exec_single of t has ended (returned or raised).
Ended(t) == status[t] \in {"finished", "callback", "complete"}

\* In this step an attempt of t starts.
AttemptStarts(t) == num_runs'[t] > num_runs[t]

\* In this step t leaves the work queue (popped, or submitted to the pool).
Leaves(t) == status[t] = "pending" /\ status'[t] /= "pending"

\* The first entry of event_list that is a failed result.
Failures == SelectSeq(event_list, LAMBDA t : outputs[t] = ZERO)
FirstFailure == IF Failures = <<>> THEN None ELSE Head(Failures)

Later(t) == {u \in Tasks : IndexOf(u) > IndexOf(t)}

----------------------------------------------------------------------------
\* C1: in both modes no attempt of a task starts, and the task does not
\* leave the queue, unless every dependency in its refs has completed with a
\* successful last attempt; a task whose dependency failed all its attempts
\* is never started.
C1_DepsSucceededBeforeStart ==
    [][\A t \in Tasks :
          (AttemptStarts(t) \/ Leaves(t)) =>
              \A d \in RefsOf(t) : Succeeded(d)]_vars

\* Pooled run that ended: t has a dependency and was run (and failed), and u,
\* which depends on t, was never started.
C1_Witness ==
    /\ pc = "done" /\ threads > 1
    /\ \E t, u \in Tasks :
          /\ t \in RefsOf(u) /\ RefsOf(t) /= {}
          /\ num_runs[t] = retries[t] + 1 /\ outputs[t] = ZERO
          /\ status[u] = "pending" /\ num_runs[u] = 0

\* C2: in pooled mode no task is submitted to the pool in a state where the
\* cancellation flag is already set.
C2_NoSubmitAfterFlag ==
    [][\A t \in Tasks :
          (status[t] = "pending" /\ status'[t] = "submitted") =>
              ~wait_and_return]_vars

\* C3: exec returns success = 1 exactly when every task was run and its last
\* attempt succeeded; otherwise it returns success = 0 with an error event.
C3_SuccessIffAllSucceeded ==
    ret.returned =>
        /\ ret.success \in {0, 1}
        /\ (ret.success = 1) <=>
               (\A t \in Tasks : num_runs[t] > 0 /\ outputs[t] = TM)
        /\ ret.success = 0 => ret.error_event /= None

\* A pooled run reported failed although some task succeeded.
C3_Witness ==
    /\ ret.returned /\ ret.success = 0 /\ threads > 1
    /\ \E t \in Tasks : Succeeded(t)
    /\ \E t \in Tasks : status[t] = "pending"

\* C4: the error event exec returns is the one of the first failed result
\* delivered to callback.
C4_FirstErrorReported ==
    (ret.returned /\ ret.success = 0) => ret.error_event = FirstFailure

\* C5: exec_single makes min(k, n + 1) attempts, k the first successful
\* attempt, stops at the first success, sleeps before no first attempt and
\* exactly once before each later one.
C5_AttemptsAndDelays ==
    \A t \in Tasks :
        /\ num_runs[t] <= retries[t] + 1
        /\ delays[t] = IF num_runs[t] = 0 THEN 0 ELSE num_runs[t] - 1
        /\ outputs[t] = TM => num_runs[t] = firstOk[t]
        /\ (Ended(t) /\ ~raised[t]) =>
               /\ num_runs[t] = ExpectedAttempts(t)
               /\ (outputs[t] = TM) <=> TaskOk(t)

\* One task used up its retries failing, another succeeded on a retry.
C5_Witness ==
    \E t, u \in Tasks :
        /\ Ended(t) /\ retries[t] >= 1 /\ outputs[t] = ZERO
        /\ num_runs[t] = retries[t] + 1 /\ delays[t] = retries[t]
        /\ Ended(u) /\ outputs[u] = TM /\ num_runs[u] = 2 /\ delays[u] = 1

\* C6: every identity is written into task_manager.upstream at most once; a
\* failed attempt writes nothing, the successful attempt writes once.
C6_RegistryWriteOnce ==
    \A t \in Tasks :
        /\ writes[t] <= 1
        /\ (writes[t] = 1) <=> (outputs[t] = TM)
        /\ (t \in upstream) <=> (writes[t] = 1)
        /\ writes[t] = 1 => num_runs[t] = firstOk[t]

\* A task that failed, was retried and then stored its output once.
C6_Witness ==
    \E t \in Tasks : num_runs[t] >= 2 /\ writes[t] = 1 /\ t \in upstream

\* C7: when a task leaves the queue (is popped or submitted) and when any of
\* its attempts starts, the registry holds an entry for each of its refs.
C7_RegistryHasDepsAtStart ==
    [][\A t \in Tasks :
          (AttemptStarts(t) \/ Leaves(t)) => RefsOf(t) \subseteq upstream]_vars

\* A pooled task with two dependencies has made an attempt.
C7_Witness ==
    /\ threads > 1
    /\ \E t \in Tasks : Cardinality(RefsOf(t)) = 2 /\ num_runs[t] > 0

\* C8: sequential mode starts tasks in queue order, one at a time, each
\* after all attempts of the earlier ones, and stops with success = 0 at the
\* first task whose attempts all fail.
C8_SequentialOrder ==
    threads = 1 =>
        /\ Cardinality({t \in Tasks : status[t] \notin {"pending", "complete"}})
               <= 1
        /\ \A t \in Tasks :
              status[t] /= "pending" =>
                  \A u \in Earlier(t) :
                      /\ Succeeded(u)
                      /\ num_runs[u] = ExpectedAttempts(u)
        /\ \A t \in Tasks :
              (status[t] = "complete" /\ outputs[t] = ZERO) =>
                  /\ num_runs[t] = retries[t] + 1
                  /\ \A u \in Later(t) : status[u] = "pending"
                  /\ ret.returned /\ ret.success = 0

\* Sequential run: A succeeded, B failed both its attempts, C never started.
C8_Witness ==
    /\ threads = 1 /\ ret.returned /\ ret.success = 0
    /\ Succeeded("A")
    /\ status["B"] = "complete" /\ outputs["B"] = ZERO /\ num_runs["B"] = 2
    /\ status["C"] = "pending"

\* C9: in pooled mode every submitted task runs all its attempts to an
\* outcome, succeeded or failed, before the pool is joined, stopped and exec
\* returns.
C9_SubmittedRunToOutcome ==
    (threads > 1 /\ pc \in {"after", "done"}) =>
        \A t \in async_results :
            /\ status[t] = "complete"
            /\ num_runs[t] = ExpectedAttempts(t)

\* What the sequential loop computes from the inputs.
SeqSuccess == IF \A t \in Tasks : TaskOk(t) THEN 1 ELSE 0
SeqRegistry == {t \in Tasks : TaskOk(t) /\ \A u \in Earlier(t) : TaskOk(u)}

\* Every task but the first depends on its predecessor in the order.
IsChain ==
    \A i \in 2..Len(topological_sort) :
        topological_sort[i - 1] \in RefsOf(topological_sort[i])

\* C10: for a single dependency chain the pooled run returns the success
\* value and leaves the registry keys that the sequential run of the same
\* inputs returns and leaves.
C10_ChainSameAsSequential ==
    (ret.returned /\ (threads = 1 \/ IsChain)) =>
        /\ ret.success = SeqSuccess
        /\ upstream = SeqRegistry

\* A chain run with four threads that failed after a first task succeeded.
C10_Witness ==
    /\ threads = 4 /\ IsChain /\ ret.returned
    /\ ret.success = 0 /\ upstream /= {}

----------------------------------------------------------------------------
(* DagExecutor.__init__ and the head of exec_single: what is derived from  *)
(* the user's selection                                                    *)

\* `self.nodes_not_explicitly_run`, as __init__ computes it.
nodes_not_explicitly_run ==
    IF ~user_arg_all_upstream /\ ~user_arg_all_downstream
    THEN Range(topological_sort) \ Range(user_arg_models)
    ELSE {}

\* `models_idx`: the position of every user-named model in the DAG order.
models_idx ==
    [i \in 1..Len(user_arg_models) |->
        ListIndex(topological_sort, user_arg_models[i])]

\* Insertion of x into a list of models sorted by their position.
RECURSIVE InsertByIdx(_, _)
InsertByIdx(s, x) ==
    IF s = <<>> THEN <<x>>
    ELSE IF ListIndex(topological_sort, x) < ListIndex(topological_sort, Head(s))
         THEN <<x>> \o s
         ELSE <<Head(s)>> \o InsertByIdx(Tail(s), x)

RECURSIVE SortByIdx(_)
SortByIdx(s) ==
    IF s = <<>> THEN <<>> ELSE InsertByIdx(SortByIdx(Tail(s)), Head(s))

\* Faulty variant: the user's models are taken in the order given.
models_sorted_AsGiven == user_arg_models

\* `models_sorted = [x for _, x in sorted(zip(models_idx, user_arg_models))]`.
models_sorted == SortByIdx(user_arg_models)

\* `explicit_run=relative_path not in self.nodes_not_explicitly_run`.
explicit_run(t) == model_relative_path(t) \notin nodes_not_explicitly_run

\* The head of exec_single for task t: fire_exec_events, idx and total, and
\* the explicit_run it passes on.
ExecSingleHead(t) ==
    /\ progress' =
          LET named == t \in Range(user_arg_models)
              all   == user_arg_all_upstream \/ user_arg_all_downstream
          IN  [task |-> t,
               fire_exec_events |-> named \/ all,
               has_idx |-> all \/ named,
               idx |-> IF all THEN ListIndex(topological_sort, t)
                       ELSE IF named THEN ListIndex(models_sorted, t)
                       ELSE 0,
               total |-> IF all THEN Len(topological_sort)
                         ELSE IF named THEN Len(models_sorted)
                         ELSE 0,
               explicit_run |-> explicit_run(t)]
    /\ UNCHANGED <<execVars, user_arg_models, user_arg_all_upstream,
                   user_arg_all_downstream, ct, compiler, norm,
                   es>>

\* Lists over the tasks without repetition.
Selections ==
    {s \in UNION {[1..n -> Tasks] : n \in 1..Cardinality(Tasks)} :
        \A i, j \in 1..Len(s) : i /= j => s[i] /= s[j]}

\* An executor that has not started exec.
ExecIdle ==
    /\ threads = 1
    /\ refs = [t \in Tasks |-> check_manifest(SeqOfSet(Earlier(t)))]
    /\ retries = [t \in Tasks |-> 0]
    /\ firstOk = [t \in Tasks |-> 1]
    /\ ExecStart

InitArgs ==
    /\ ExecIdle
    /\ user_arg_models \in Selections
    /\ user_arg_all_upstream \in BOOLEAN
    /\ user_arg_all_downstream \in BOOLEAN
    /\ progress = NoProgress
    /\ CompileIdle
    /\ CompilerIdle
    /\ NormIdle /\ EsIdle

NextArgs == \E t \in Tasks : ExecSingleHead(t)

SpecArgs == InitArgs /\ [][NextArgs]_vars

\* C11: idx and total are the task's position in the whole order and its
\* length when all-upstream or all-downstream is set; else, for a user-named
\* task, its rank among the user-named tasks by position in the order and
\* their number; else both are absent.
C11_ProgressPosition ==
    progress.task /= None =>
        LET t == progress.task
            named == Range(user_arg_models)
        IN  IF user_arg_all_upstream \/ user_arg_all_downstream
            THEN /\ progress.has_idx
                 /\ progress.idx = IndexOf(t)
                 /\ progress.total = Cardinality(Tasks)
            ELSE IF t \in named
            THEN /\ progress.has_idx
                 /\ progress.idx =
                       1 + Cardinality({u \in named : IndexOf(u) < IndexOf(t)})
                 /\ progress.total = Cardinality(named)
            ELSE ~progress.has_idx

\* The user named C before A; exec_single ranks C second of two.
C11_Witness ==
    /\ ~user_arg_all_upstream /\ ~user_arg_all_downstream
    /\ user_arg_models = <<"C", "A">>
    /\ progress.task = "C" /\ progress.idx = 2 /\ progress.total = 2

\* C12: explicit_run is true exactly for a task the user named or when
\* all-upstream or all-downstream is set.
C12_ExplicitRunFlag ==
    progress.task /= None =>
        (progress.explicit_run <=>
            \/ progress.task \in Range(user_arg_models)
            \/ user_arg_all_upstream
            \/ user_arg_all_downstream)

----------------------------------------------------------------------------
\* C13: exec leaves the list of compiled tasks the CompiledDag holds as it
\* was: the same elements in the same order when exec has returned.
C13_CompiledDagUnchanged ==
    ret.returned => compiled_dag_compiled_models = topological_sort

----------------------------------------------------------------------------
(* Runs in which one task's refs are neither a string nor a list *)

InvalidRefs == [type |-> "other", str |-> None, list |-> <<>>]

BadRefsInputs ==
    /\ threads \in {1, 2}
    /\ \E bad \in Tasks, deps \in [Tasks -> SUBSET Tasks] :
          /\ \A t \in Tasks : deps[t] \subseteq Earlier(t)
          /\ deps[bad] = {}
          /\ refs = [t \in Tasks |->
                        IF t = bad THEN InvalidRefs
                        ELSE check_manifest(SeqOfSet(deps[t]))]
    /\ retries \in [Tasks -> 0..MaxRetries]
    /\ firstOk \in [Tasks -> 1..(MaxRetries + 2)]
    /\ \A t \in Tasks : firstOk[t] <= retries[t] + 2

InitBadRefs ==
    /\ BadRefsInputs /\ ExecStart
    /\ ArgsIdle /\ CompileIdle /\ CompilerIdle /\ NormIdle /\ EsIdle

SpecBadRefs == InitBadRefs /\ [][Next]_vars

\* C14: when some task's refs are neither a string nor a list, no task of
\* the run is started (popped, or submitted to the pool).
C14_InvalidRefsBeforeAnyTask ==
    (\E t \in Tasks : RefsInvalid(refs[t])) =>
        \A t \in Tasks : status[t] = "pending"

----------------------------------------------------------------------------
(* CompileTask.run and CompileTask.run_for_subclass *)

\* `TaskRunReturnResult(event_list)` and `TaskRunReturnResult(event_list, True)`.
TaskRunReturnResult(has_error) ==
    [type |-> "TaskRunReturnResult", has_error |-> has_error, outputs |-> None]

\* The EventManagerOutput of manage_events_during_run: outputs is 0 when the
\* managed function raised.
EventManagerOutput(out) ==
    [type |-> "EventManagerOutput", has_error |-> FALSE, outputs |-> out]

\* What a caller can tell from the returned object.
MarkedError(res) ==
    IF res.type = "TaskRunReturnResult" THEN res.has_error
                                        ELSE res.outputs = ZERO

CtReturn(stage, res) ==
    ct' = [ct EXCEPT !.pc = "returned", !.failed = stage, !.result = res]

CtIdleRest == UNCHANGED <<execVars, argVars, compiler, norm, es>>

\* run: `event_list, project_dir = self.fire_header_events()`.
CtHeader ==
    /\ ct.pc = "header"
    /\ IF ct.project_dir_found
       THEN ct' = [ct EXCEPT !.pc = "models_dir"]
       ELSE CtReturn("header", TaskRunReturnResult(FALSE))
    /\ CtIdleRest

\* `models_dir = self.get_models_dir(project_dir)` and its except branch.
CtModelsDir ==
    /\ ct.pc = "models_dir"
    /\ IF ct.models_dir_ok
       THEN ct' = [ct EXCEPT !.pc = "user_arg_models"]
       ELSE CtReturn("models_dir",
                     TaskRunReturnResult(ct.method = "run"))
    /\ CtIdleRest

\* The event manager around get_models_to_compile: `if user_arg_models == 0`.
CtUserArgModels ==
    /\ ct.pc = "user_arg_models"
    /\ IF ct.user_args_ok
       THEN ct' = [ct EXCEPT !.pc = "compile_dag"]
       ELSE CtReturn("user_arg_models", TaskRunReturnResult(TRUE))
    /\ CtIdleRest

\* The event manager around compile_dag: run wraps a failure in an
\* error-marked TaskRunReturnResult, run_for_subclass hands back the
\* EventManagerOutput itself in both cases.
CtCompileDag ==
    /\ ct.pc = "compile_dag"
    /\ LET out == IF ct.dag_ok THEN "compiled_dag" ELSE ZERO
           stage == IF ct.dag_ok THEN None ELSE "compile_dag"
       IN  IF ct.method = "run"
           THEN IF ct.dag_ok
                THEN ct' = [ct EXCEPT !.pc = "success"]
                ELSE CtReturn(stage, TaskRunReturnResult(TRUE))
           ELSE CtReturn(stage, EventManagerOutput(out))
    /\ CtIdleRest

\* run: the success message and `return TaskRunReturnResult(event_list)`.
CtSuccess ==
    /\ ct.pc = "success"
    /\ CtReturn(None, TaskRunReturnResult(FALSE))
    /\ CtIdleRest

CompileMethods == {"run", "run_for_subclass"}

InitCompile ==
    /\ ExecIdle
    /\ ArgsIdle
    /\ CompilerIdle
    /\ NormIdle /\ EsIdle
    /\ \E m \in CompileMethods, pd, md, ua, dg, tb \in BOOLEAN :
          /\ m = "run_for_subclass" => pd
          /\ ct = [pc |-> IF m = "run" THEN "header" ELSE "models_dir",
                   method |-> m,
                   project_dir_found |-> pd,
                   models_dir_ok |-> md,
                   user_args_ok |-> ua,
                   dag_ok |-> dg,
                   full_tb |-> tb,
                   failed |-> None,
                   result |-> TaskRunReturnResult(FALSE)]

NextCompile ==
    \/ CtHeader
    \/ CtModelsDir
    \/ CtUserArgModels
    \/ CtCompileDag
    \/ CtSuccess

SpecCompile == InitCompile /\ [][NextCompile]_vars

CompileStages == {"models_dir", "user_arg_models", "compile_dag"}

\* C15: when a compile stage (models directory, user-specified models, DAG
\* compilation) has failed, the result that run or run_for_subclass returns
\* is marked as an error.
C15_CompileFailureMarked ==
    (ct.pc = "returned" /\ ct.failed \in CompileStages) =>
        MarkedError(ct.result)

----------------------------------------------------------------------------
(* The graph compiler: validation and Kahn's algorithm with a stable
   tie-break by descriptor order *)

\* The descriptors in discovery order, and an identity no descriptor has.
allDescriptors == <<"A", "B", "C">>
UnknownIdentity == "X"

\* Step 1: a dependency identity absent from the descriptors.
UnresolvedReference(deps) ==
    \E t \in Tasks : ~(deps[t] \subseteq Tasks)

RECURSIVE ReachN(_, _, _)
ReachN(deps, S, n) ==
    IF n = 0 THEN S
    ELSE ReachN(deps, S \cup UNION {deps[u] : u \in S}, n - 1)

\* Step 2: what the three-colour traversal finds, a task that reaches itself.
CyclicDependency(deps) ==
    \E t \in Tasks : t \in ReachN(deps, deps[t], Cardinality(Tasks))

\* Step 3: a node has in-degree zero once all its dependencies are removed.
ZeroInDegree_Any(c, t) == TRUE

ZeroInDegree(c, t) == c.deps[t] \subseteq Range(c.order)

CompilerRest == UNCHANGED <<execVars, argVars, ct, norm, es>>

CompilerValidate ==
    /\ compiler.pc = "validate"
    /\ compiler' =
          IF UnresolvedReference(compiler.deps)
          THEN [compiler EXCEPT !.pc = "error",
                                !.error = "UnresolvedReference"]
          ELSE IF CyclicDependency(compiler.deps)
          THEN [compiler EXCEPT !.pc = "error",
                                !.error = "CyclicDependency"]
          ELSE [compiler EXCEPT !.pc = "kahn"]
    /\ CompilerRest

\* Remove the first node, in descriptor order, that has in-degree zero.
KahnStep ==
    /\ compiler.pc = "kahn"
    /\ Len(compiler.order) < Len(allDescriptors)
    /\ LET ready == {i \in 1..Len(allDescriptors) :
                        /\ allDescriptors[i] \notin Range(compiler.order)
                        /\ ZeroInDegree(compiler, allDescriptors[i])}
           first == CHOOSE i \in ready : \A k \in ready : i <= k
       IN  /\ ready /= {}
           /\ compiler' =
                 [compiler EXCEPT !.order = Append(@, allDescriptors[first])]
    /\ CompilerRest

CompilerFinish ==
    /\ compiler.pc = "kahn"
    /\ Len(compiler.order) = Len(allDescriptors)
    /\ compiler' = [compiler EXCEPT !.pc = "done"]
    /\ CompilerRest

InitCompiler ==
    /\ ExecIdle
    /\ ArgsIdle
    /\ CompileIdle
    /\ NormIdle /\ EsIdle
    /\ \E deps \in [Tasks -> SUBSET (Tasks \cup {UnknownIdentity})] :
          compiler = [pc |-> "validate", deps |-> deps, order |-> <<>>,
                      error |-> None]

NextCompiler ==
    \/ CompilerValidate
    \/ KahnStep
    \/ CompilerFinish

SpecCompiler == InitCompiler /\ [][NextCompiler]_vars

\* C16: in the order the compiler builds and hands over, every dependency of
\* a task stands at a strictly earlier index than the task.
C16_TopologicalValidity ==
    compiler.pc \in {"kahn", "done"} =>
        \A i \in 1..Len(compiler.order) :
            \A d \in compiler.deps[compiler.order[i]] :
                \E j \in 1..(i - 1) : compiler.order[j] = d

\* A finished order that differs from the descriptor order.
C16_Witness ==
    /\ compiler.pc = "done"
    /\ compiler.deps["A"] = {"C"}
    /\ compiler.order = <<"B", "C", "A">>

----------------------------------------------------------------------------
IsPrefix(s, q) == Len(s) <= Len(q) /\ s = SubSeq(q, 1, Len(s))

\* C17: in pooled mode the tasks submitted so far, in submission order, are
\* a prefix of the selected order: none out of turn, none twice.
C17_SubmissionsPrefix ==
    threads > 1 => IsPrefix(submissions, topological_sort)

\* The whole queue has been submitted, one task after the other.
C17_Witness ==
    /\ threads > 1
    /\ submissions = topological_sort
    /\ compiled_models = <<>>

\* C18: in pooled mode a ref the submission loop waits on is a key of
\* async_results, and the lookup never raises KeyError.
C18_WaitedRefIsKey ==
    /\ pc /= "keyerror"
    /\ pc = "wait" =>
          \A i \in 1..Len(check_task_refs(refs[curr])) :
              check_task_refs(refs[curr])[i] \in async_results

\* The loop waits on two refs of the task at the head of the queue.
C18_Witness ==
    /\ pc = "wait"
    /\ curr = "C"
    /\ check_task_refs(refs[curr]) = <<"A", "B">>
    /\ status["C"] = "pending"

----------------------------------------------------------------------------
\* Sequential runs and runs on a pool with fewer workers than tasks.
InitFair == Init /\ threads \in {1, 2}

\* The main thread, the workers and the result handler all keep running, and
\* every task attempt terminates.
SpecFair == InitFair /\ [][Next]_vars /\ WF_vars(Next)

\* C19: for every topologically ordered queue and every outcome of the
\* attempts, exec eventually returns an ExecutorOutput, in both modes.
C19_ExecReturns == <>(pc = "done" /\ ret.returned)

\* exec has returned from a pooled run in which one task failed and the
\* worker of another raised.
C19_Witness ==
    /\ threads > 1
    /\ ret.returned
    /\ \E t \in Tasks : raised[t] /\ status[t] = "complete"
    /\ \E t \in Tasks : outputs[t] = ZERO /\ num_runs[t] > 0

----------------------------------------------------------------------------
\* t has made all its retries + 1 attempts and every one failed.
Exhausted(t) ==
    /\ num_runs[t] = retries[t] + 1
    /\ outputs[t] = ZERO
    /\ ~TaskOk(t)
    /\ Ended(t)

\* C20: the flag and the error event are set only by a task that made all
\* its retries + 1 attempts with every one failing; failed attempts that are
\* followed by a retry set nothing and stop no other task, so a run in which
\* every task succeeds within its retries returns success with every task
\* run.
C20_OnlyExhaustedTaskCancels ==
    /\ (wait_and_return \/ error_event /= None) =>
          /\ wait_and_return
          /\ error_event \in Tasks
          /\ Exhausted(error_event)
    /\ (ret.returned /\ \A t \in Tasks : TaskOk(t)) =>
          /\ ret.success = 1
          /\ ret.error_event = None
          /\ \A t \in Tasks : Succeeded(t)

\* A pooled run returned successful although a task failed its first attempt
\* and succeeded on a retry.
C20_Witness ==
    /\ threads > 1
    /\ ret.returned
    /\ ret.success = 1
    /\ \E t \in Tasks :
          /\ firstOk[t] = 2
          /\ num_runs[t] = 2
          /\ delays[t] = 1
          /\ Succeeded(t)

----------------------------------------------------------------------------
\* t was started in the run: popped (sequential) or submitted (pooled).
Started(t) == status[t] /= "pending"

\* C21: the event list exec returns holds the outcome of every task that was
\* started in the run.
C21_EventListHasStarted ==
    ret.returned => \A t \in Tasks : Started(t) => t \in Range(event_list)

----------------------------------------------------------------------------
\* C22: at most `threads` tasks are executing an attempt at any moment; with
\* threads = 1 at most one is, and no pool exists.
C22_AtMostThreadsRunning ==
    /\ Cardinality(Running) <= threads
    /\ threads = 1 => pool = "none" /\ async_results = {}

\* Both workers of a pool of two are busy while a third task is queued.
C22_Witness ==
    /\ threads = 2
    /\ Cardinality(Running) = 2
    /\ \E t \in Tasks : status[t] = "submitted"

----------------------------------------------------------------------------
(* A further call of exec on the same executor *)

\* exec is called again after it returned: the event list, the task manager,
\* the flag and the error event are set anew, the work queue is what the
\* previous call left, and a pooled call makes a new pool and a new
\* async_results.
ExecAgain ==
    /\ pc = "done"
    /\ ret.returned
    /\ event_list' = <<>>
    /\ task_manager' = TM
    /\ wait_and_return' = FALSE
    /\ error_event' = None
    /\ async_results' = {}
    /\ pool' = IF threads = 1 THEN "none" ELSE "open"
    /\ pc' = IF threads = 1 THEN "seq_loop" ELSE "loop"
    /\ ret' = [returned |-> FALSE, success |-> 0, error_event |-> None]
    /\ UNCHANGED <<otherVars, submissions, threads, refs, retries, firstOk,
                   compiled_models, curr, status, raised, tmArg, num_runs,
                   outputs, delays, upstream, writes>>

NextAgain ==
    \/ Next
    \/ ExecAgain

SpecAgain == Init /\ [][NextAgain]_vars

\* C23: the tasks removed from the work queue are the started ones, and
\* followed by the tasks still in the queue they give the original order;
\* the queue is empty when exec returns success = 1 and holds exactly the
\* tasks never started when it returns success = 0, also in a further call.
C23_QueuePartition ==
    /\ SeqOfSet({t \in Tasks : Started(t)}) \o compiled_models
          = topological_sort
    /\ (ret.returned /\ ret.success = 1) => compiled_models = <<>>
    /\ (ret.returned /\ ret.success = 0) =>
          Range(compiled_models) = {t \in Tasks : ~Started(t)}

\* A first sequential call stopped at A's failure; a second call ran the
\* tasks the first left in the queue and returned success.
C23_Witness ==
    /\ threads = 1
    /\ status["A"] = "complete"
    /\ outputs["A"] = ZERO
    /\ Succeeded("B")
    /\ Succeeded("C")
    /\ num_runs["A"] = retries["A"] + 1
    /\ compiled_models = <<>>
    /\ ret.returned
    /\ ret.success = 1

----------------------------------------------------------------------------
(* Normalisation of a module's declared sources *)

\* Longest list of declared sources, and the source names.
MaxSources == 3
Sources == Tasks

SourceLists == UNION {[1..n -> Sources] : n \in 0..MaxSources}

NormRest == UNCHANGED <<execVars, argVars, ct, compiler, es>>

\* CompiledModule.__init__: `self.refs = self._check_manifest(...)`.
StoreRefs ==
    /\ norm.pc = "manifest"
    /\ norm' = [norm EXCEPT !.pc = "compiled",
                            !.refs = check_manifest(norm.sources)]
    /\ NormRest

\* `refs = self.check_task_refs(curr)` on the compiled module.
NormaliseRefs ==
    /\ norm.pc = "compiled"
    /\ norm' = [norm EXCEPT !.pc = "normalised",
                            !.out = check_task_refs(norm.refs)]
    /\ NormRest

InitNorm ==
    /\ ExecIdle
    /\ ArgsIdle
    /\ CompileIdle
    /\ CompilerIdle
    /\ EsIdle
    /\ \E srcs \in SourceLists :
          norm = [pc |-> "manifest", sources |-> srcs,
                  refs |-> check_manifest(<<>>), out |-> <<>>]

NextNorm ==
    \/ StoreRefs
    \/ NormaliseRefs

SpecNorm == InitNorm /\ [][NextNorm]_vars

\* C24: the refs _check_manifest stores for a list of declared sources,
\* passed through check_task_refs, give the same sources in the same order.
C24_RefsRoundTrip ==
    norm.pc = "normalised" => norm.out = norm.sources

\* A single declared source was stored as a bare string and came back as a
\* list of one.
C24_Witness ==
    /\ norm.pc = "normalised"
    /\ norm.refs.type = "str"
    /\ norm.out = <<"B">>

----------------------------------------------------------------------------
(* exec_single: the name each attempt is reported under *)

\* Largest retry count of the task whose attempts are named.
MaxNameRetries == 3

\* `name = model.task_var_name`: the task's name without any tag.
BareName(t) == [base |-> t, tags |-> <<>>]

\* `name = name + f' (RETRY {num_runs - 1})'`: the tag is appended to what
\* the variable holds.
RetryTag(name, k) == [name EXCEPT !.tags = Append(@, k)]

EsRest == UNCHANGED <<execVars, argVars, ct, compiler, norm>>

\* One iteration of the while loop: the attempt is counted, a retry is
\* tagged, and the attempt is run under the name.
EsAttempt ==
    /\ es.pc = "loop"
    /\ LoopCond(es.num_runs, retries[es.task] + 1, es.outputs)
    /\ LET k == es.num_runs + 1
       IN  es' = [es EXCEPT
                     !.num_runs = k,
                     !.name = IF IsRetry(k) THEN RetryTag(@, k - 1) ELSE @,
                     !.outputs =
                         manage_events_during_run(es.task, k).outputs]
    /\ EsRest

\* The loop condition fails: `return script_event_manager_result`.
EsReturn ==
    /\ es.pc = "loop"
    /\ ~LoopCond(es.num_runs, retries[es.task] + 1, es.outputs)
    /\ es' = [es EXCEPT !.pc = "returned"]
    /\ EsRest

InitName ==
    /\ threads = 1
    /\ refs = [t \in Tasks |-> check_manifest(SeqOfSet(Earlier(t)))]
    /\ \E t \in Tasks, r \in 0..MaxNameRetries, f \in 1..(MaxNameRetries + 2) :
          /\ f <= r + 2
          /\ retries = [u \in Tasks |-> IF u = t THEN r ELSE 0]
          /\ firstOk = [u \in Tasks |-> IF u = t THEN f ELSE 1]
          /\ es = [pc |-> "loop", task |-> t, num_runs |-> 0,
                   outputs |-> ZERO, name |-> BareName(t)]
    /\ ExecStart
    /\ ArgsIdle
    /\ CompileIdle
    /\ CompilerIdle
    /\ NormIdle

NextName ==
    \/ EsAttempt
    \/ EsReturn

SpecName == InitName /\ [][NextName]_vars

\* C25: attempt 1 of a task is reported under the bare task name, and
\* attempt k >= 2 under the task name followed by the single tag k - 1.
C25_AttemptName ==
    (es.pc \in {"loop", "returned"} /\ es.num_runs >= 1) =>
        es.name = [base |-> es.task,
                   tags |-> IF es.num_runs = 1 THEN <<>>
                            ELSE <<es.num_runs - 1>>]

====
